---- MODULE Spec2Model ----
(***************************************************************************)
(* A model of phantomsetup/eos.py (the EquationOfState class and the       *)
(* polyk / aspect-ratio derivations) and of the part of                    *)
(* examples/setup_disc.py that uses them.                                  *)
(*                                                                         *)
(* Real numbers are modelled exactly, not in floating point: a value is    *)
(* zero or a positive monomial  2^a 3^b 5^c k_b^d ...  over the primes     *)
(* 2, 3, 5 and the named values imported from the constants and defaults   *)
(* modules, which stay symbolic.  Exponents are rationals, stored in       *)
(* sixteenths, so products, quotients, square roots and rational powers    *)
(* are exact.  A sum is computed when the ratio of its terms is rational   *)
(* and the sum factors over 2, 3, 5; otherwise it is NaR and the inputs    *)
(* that lead there are left out of the initial states.                     *)
(***************************************************************************)
EXTENDS Integers, Sequences, FiniteSets, TLC

VARIABLES
    headerKeys,   \* the parameter names that defaults.HEADER holds
    eos,          \* the EquationOfState instance, or NoInstance
    last,         \* the last operation on the class and how it ended
    args,         \* the arguments of the polyk / aspect-ratio calls
    res,          \* the values those calls have returned
    script        \* the state of examples/setup_disc.py

vars == <<headerKeys, eos, last, args, res, script>>

----------------------------------------------------------------------------
(* Exact arithmetic *)

Primes == {"p2", "p3", "p5"}

Symbols == {"k_b", "m_p", "G_cgs", "solarm", "au", "mu_run",
            "RK2", "H_mu", "H_gamma", "H_qfacdisc",
            "O_mu", "O_gamma", "O_qfacdisc"}

Atoms == Primes \cup Symbols

\* one unit of exponent is 1/Unit: a quarter power under two square roots
Unit == 2 * 2 * 2 * 2

\* q_index and my_temp_exp are given in quarters
QDen == 2 * 2

PrimeOf(a) == CASE a = "p2" -> 2 [] a = "p3" -> 3 [] a = "p5" -> 5

ZeroExp == [a \in Atoms |-> 0]

Zero == [k |-> "zero", e |-> ZeroExp]
NaR  == [k |-> "nar",  e |-> ZeroExp]
None == [k |-> "none", e |-> ZeroExp]
One  == [k |-> "pos",  e |-> ZeroExp]

Sym(s) == [k |-> "pos", e |-> [a \in Atoms |-> IF a = s THEN Unit ELSE 0]]

RECURSIVE Mult(_, _)
\* how often p divides n
Mult(n, p) == IF n % p = 0 THEN 1 + Mult(n \div p, p) ELSE 0

RECURSIVE IPow(_, _)
IPow(b, n) == IF n = 0 THEN 1 ELSE b * IPow(b, n - 1)

Smooth(n) ==
    n >= 1 /\ n = IPow(2, Mult(n, 2)) * IPow(3, Mult(n, 3)) * IPow(5, Mult(n, 5))

\* the value of a positive integer that factors over 2, 3, 5
FromInt(n) ==
    [k |-> "pos",
     e |-> [a \in Atoms |-> IF a \in Primes THEN Unit * Mult(n, PrimeOf(a)) ELSE 0]]

\* x * y
Mul(x, y) ==
    IF x.k = "nar" \/ y.k = "nar" THEN NaR
    ELSE IF x.k = "zero" \/ y.k = "zero" THEN Zero
    ELSE [k |-> "pos", e |-> [a \in Atoms |-> x.e[a] + y.e[a]]]

\* x / y; dividing by zero raises, which is NaR here
Div(x, y) ==
    IF x.k = "nar" \/ y.k \in {"nar", "zero"} THEN NaR
    ELSE IF x.k = "zero" THEN Zero
    ELSE [k |-> "pos", e |-> [a \in Atoms |-> x.e[a] - y.e[a]]]

\* np.sqrt(x)
Sqrt(x) ==
    IF x.k # "pos" THEN x
    ELSE IF \E a \in Atoms : x.e[a] % 2 # 0 THEN NaR
    ELSE [k |-> "pos", e |-> [a \in Atoms |-> x.e[a] \div 2]]

\* x ** (q4 / QDen)
Pow(x, q4) ==
    IF x.k = "nar" THEN NaR
    ELSE IF x.k = "zero" THEN (IF q4 > 0 THEN Zero ELSE IF q4 = 0 THEN One ELSE NaR)
    ELSE IF \E a \in Atoms : (x.e[a] * q4) % QDen # 0 THEN NaR
    ELSE [k |-> "pos", e |-> [a \in Atoms |-> (x.e[a] * q4) \div QDen]]

\* x ** 2
Sq(x) == Pow(x, 2 * QDen)

Max0(n) == IF n > 0 THEN n ELSE 0

\* the integer  2^(e[p2]/Unit) 3^(e[p3]/Unit) 5^(e[p5]/Unit)
IntOf(e) ==
    IPow(2, e["p2"] \div Unit) * IPow(3, e["p3"] \div Unit) * IPow(5, e["p5"] \div Unit)

\* x + y
Add(x, y) ==
    IF x.k = "nar" \/ y.k = "nar" THEN NaR
    ELSE IF x.k = "zero" THEN y
    ELSE IF y.k = "zero" THEN x
    ELSE LET r == [a \in Atoms |-> x.e[a] - y.e[a]]
         IN  IF \E a \in Atoms : r[a] % Unit # 0 \/ (a \in Symbols /\ r[a] # 0)
             THEN NaR
             ELSE LET p == IntOf([a \in Atoms |-> Max0(r[a])])
                      q == IntOf([a \in Atoms |-> Max0(0 - r[a])])
                  IN  IF Smooth(p + q)
                      THEN Mul(y, Div(FromInt(p + q), FromInt(q)))
                      ELSE NaR

----------------------------------------------------------------------------
(* phantomsetup/eos.py: the tables *)

ieos_label == {1, 2, 3, 6, 7, 8, 9, 10, 11, 14}

ieos_has ==
    [mu       |-> {1, 2, 3, 6, 7, 8, 9, 10, 11, 14},
     polyk    |-> {1, 2, 3, 6, 7, 8, 9, 10, 11, 14},
     gamma    |-> {2, 8, 9},
     qfacdisc |-> {3, 6, 7, 14}]

\* the keys of self.parameters, in the order the loops visit them
ParamOrder == <<"mu", "polyk", "gamma", "qfacdisc">>

ParamNames == {ParamOrder[i] : i \in 1..Len(ParamOrder)}

KwargNames == ParamNames \cup {"other"}

\* defaults.HEADER[parameter], for the names HEADER holds
HEADER ==
    [mu |-> Sym("H_mu"), gamma |-> Sym("H_gamma"), qfacdisc |-> Sym("H_qfacdisc")]

\* defaults.RUN_OPTIONS.config[parameter].value
RUN_OPTIONS ==
    [mu |-> Sym("O_mu"), gamma |-> Sym("O_gamma"), qfacdisc |-> Sym("O_qfacdisc")]

\* 2 / 3 * defaults.HEADER['RK2']
DefaultPolyk == Mul(Div(FromInt(2), FromInt(3)), Sym("RK2"))

----------------------------------------------------------------------------
(* phantomsetup/eos.py: class EquationOfState *)

AllNone == [p \in ParamNames |-> None]

NoInstance == [exists |-> FALSE, ieos |-> 0, parameters |-> AllNone]

\* the body of the "Set defaults" loop for one parameter
SetDefault(ieos, hk, parameter) ==
    IF ieos \in ieos_has[parameter]
    THEN IF parameter = "polyk"
         THEN DefaultPolyk
         ELSE IF parameter \in hk THEN HEADER[parameter] ELSE RUN_OPTIONS[parameter]
    ELSE None

RECURSIVE SetKwargs_ignoring(_, _, _, _)
\* a kwargs loop that skips an unsupported override instead of raising
SetKwargs_ignoring(ieos, kwargs, parameters, i) ==
    IF i > Len(ParamOrder) THEN [raised |-> FALSE, parameters |-> parameters]
    ELSE LET parameter == ParamOrder[i]
         IN  IF parameter \in DOMAIN kwargs /\ ieos \in ieos_has[parameter]
             THEN SetKwargs_ignoring(ieos, kwargs,
                                     [parameters EXCEPT ![parameter] = kwargs[parameter]],
                                     i + 1)
             ELSE SetKwargs_ignoring(ieos, kwargs, parameters, i + 1)

RECURSIVE SetKwargs(_, _, _, _)
\* the "Set values from kwargs" loop from its i-th parameter on: the
\* parameters it ends with, or a raise at the first unsupported override
SetKwargs(ieos, kwargs, parameters, i) ==
    IF i > Len(ParamOrder) THEN [raised |-> FALSE, parameters |-> parameters]
    ELSE LET parameter == ParamOrder[i]
         IN  IF parameter \in DOMAIN kwargs
             THEN IF ieos \notin ieos_has[parameter]
                  THEN [raised |-> TRUE, parameters |-> parameters]
                  ELSE SetKwargs(ieos, kwargs,
                                 [parameters EXCEPT ![parameter] = kwargs[parameter]],
                                 i + 1)
             ELSE SetKwargs(ieos, kwargs, parameters, i + 1)

\* an __init__ that sets the defaults after the overrides
EosInit_defaults_last(ieos, kwargs, hk) ==
    IF ieos \notin ieos_label
    THEN [raised |-> TRUE, self |-> NoInstance]
    ELSE LET set == SetKwargs(ieos, kwargs, AllNone, 1)
         IN  IF set.raised
             THEN [raised |-> TRUE, self |-> NoInstance]
             ELSE [raised |-> FALSE,
                   self |-> [exists |-> TRUE, ieos |-> ieos,
                             parameters |->
                                 [p \in ParamNames |->
                                     IF ieos \in ieos_has[p]
                                     THEN SetDefault(ieos, hk, p)
                                     ELSE set.parameters[p]]]]

\* EquationOfState.__init__: the instance, or a raise
EosInit(ieos, kwargs, hk) ==
    IF ieos \notin ieos_label
    THEN [raised |-> TRUE, self |-> NoInstance]
    ELSE LET defaults == [p \in ParamNames |-> SetDefault(ieos, hk, p)]
             set == SetKwargs(ieos, kwargs, defaults, 1)
         IN  IF set.raised
             THEN [raised |-> TRUE, self |-> NoInstance]
             ELSE [raised |-> FALSE,
                   self |-> [exists |-> TRUE, ieos |-> ieos,
                             parameters |-> set.parameters]]

\* the property getters
mu_getter(self) == self.parameters["mu"]
polyk_getter(self) == self.parameters["polyk"]
gamma_getter(self) == self.parameters["gamma"]
qfacdisc_getter(self) == self.parameters["qfacdisc"]

\* the property setters: the instance after the call, or a raise
mu_setter(self, value) ==
    IF self.ieos \notin ieos_has["mu"]
    THEN [raised |-> TRUE, self |-> self]
    ELSE [raised |-> FALSE, self |-> [self EXCEPT !.parameters["mu"] = value]]

\* a polyk setter that stores under the key of the setter above it
polyk_setter_wrong_key(self, value) ==
    IF self.ieos \notin ieos_has["polyk"]
    THEN [raised |-> TRUE, self |-> self]
    ELSE [raised |-> FALSE, self |-> [self EXCEPT !.parameters["mu"] = value]]

polyk_setter(self, value) ==
    IF self.ieos \notin ieos_has["polyk"]
    THEN [raised |-> TRUE, self |-> self]
    ELSE [raised |-> FALSE, self |-> [self EXCEPT !.parameters["polyk"] = value]]

\* a gamma setter without the check of the variant
gamma_setter_unchecked(self, value) ==
    [raised |-> FALSE, self |-> [self EXCEPT !.parameters["gamma"] = value]]

gamma_setter(self, value) ==
    IF self.ieos \notin ieos_has["gamma"]
    THEN [raised |-> TRUE, self |-> self]
    ELSE [raised |-> FALSE, self |-> [self EXCEPT !.parameters["gamma"] = value]]

\* a qfacdisc setter that checks against the table entry of gamma
qfacdisc_setter_gamma_table(self, value) ==
    IF self.ieos \notin ieos_has["gamma"]
    THEN [raised |-> TRUE, self |-> self]
    ELSE [raised |-> FALSE, self |-> [self EXCEPT !.parameters["qfacdisc"] = value]]

qfacdisc_setter(self, value) ==
    IF self.ieos \notin ieos_has["qfacdisc"]
    THEN [raised |-> TRUE, self |-> self]
    ELSE [raised |-> FALSE, self |-> [self EXCEPT !.parameters["qfacdisc"] = value]]

----------------------------------------------------------------------------
(* The callers of the class *)

\* variant codes 0..MaxIeos are tried, the unknown ones among them
MaxIeos == 15

\* the values callers pass are 1..MaxValue
MaxValue == 2

Values == {FromInt(n) : n \in 1..MaxValue}

Kwargs == UNION {[S -> Values] : S \in SUBSET KwargNames}

NoKwargs == [x \in {} |-> None]

NoOp ==
    [op |-> "none", ieos |-> 0, kwargs |-> NoKwargs, param |-> "none",
     value |-> None, raised |-> FALSE, result |-> None]

NoArgs == [x \in {} |-> None]

EosInitState ==
    /\ headerKeys \in SUBSET {"mu", "gamma", "qfacdisc"}
    /\ eos = NoInstance
    /\ last = NoOp
    /\ args = NoArgs
    /\ res = NoArgs
    /\ script = NoArgs

\* e = EquationOfState(ieos, **kwargs); an uncaught raise ends the program
Construct ==
    /\ ~eos.exists
    /\ last.op = "none"
    /\ \E ieos \in 0..MaxIeos, kwargs \in Kwargs :
          LET r == EosInit(ieos, kwargs, headerKeys)
          IN  /\ eos' = r.self
              /\ last' = [NoOp EXCEPT !.op = "construct", !.ieos = ieos,
                                      !.kwargs = kwargs, !.raised = r.raised]
    /\ UNCHANGED <<headerKeys, args, res, script>>

Got(param, result) ==
    /\ eos.exists
    /\ last' = [NoOp EXCEPT !.op = "get", !.param = param, !.result = result]
    /\ UNCHANGED <<headerKeys, eos, args, res, script>>

\* e.mu, e.polyk, e.gamma, e.qfacdisc
GetMu == Got("mu", mu_getter(eos))
GetPolyk == Got("polyk", polyk_getter(eos))
GetGamma == Got("gamma", gamma_getter(eos))
GetQfacdisc == Got("qfacdisc", qfacdisc_getter(eos))

HasSet(param, value, r) ==
    /\ eos' = r.self
    /\ last' = [NoOp EXCEPT !.op = "set", !.param = param, !.value = value,
                            !.raised = r.raised]
    /\ UNCHANGED <<headerKeys, args, res, script>>

\* e.mu = value, ...; the caller catches the ValueError and goes on
SetMu == eos.exists /\ \E v \in Values : HasSet("mu", v, mu_setter(eos, v))
SetPolyk == eos.exists /\ \E v \in Values : HasSet("polyk", v, polyk_setter(eos, v))
SetGamma == eos.exists /\ \E v \in Values : HasSet("gamma", v, gamma_setter(eos, v))
SetQfacdisc ==
    eos.exists /\ \E v \in Values : HasSet("qfacdisc", v, qfacdisc_setter(eos, v))

EosNext ==
    \/ Construct
    \/ GetMu \/ GetPolyk \/ GetGamma \/ GetQfacdisc
    \/ SetMu \/ SetPolyk \/ SetGamma \/ SetQfacdisc

Spec == EosInitState /\ [][EosNext]_vars

----------------------------------------------------------------------------
(* phantomsetup/eos.py: the polyk and aspect-ratio derivations *)

k_b == Sym("k_b")
m_p == Sym("m_p")
solarm == Sym("solarm")
au == Sym("au")

\* constants.gravitational_constant
G_cgs == Sym("G_cgs")

\* defaults._RUN_OPTIONS['mu']
mu_run == Sym("mu_run")

\* line 170 and line 215: the angular velocity both functions compute
omega_ref_cgs(reference_radius, stellar_mass) ==
    Sqrt(Div(Mul(Mul(G_cgs, stellar_mass), solarm),
             Pow(Mul(reference_radius, au), 3 * QDen)))

\* a polyk with the gravitational constant outside the square root
polyk_G_outside_sqrt(q_index, reference_radius, aspect_ratio, stellar_mass, gravitational_constant) ==
    Sq(Mul(Mul(aspect_ratio,
               Mul(gravitational_constant, Sqrt(Div(stellar_mass, reference_radius)))),
           Pow(reference_radius, q_index)))

\* a polyk that squares the velocity only, not the power of the radius
polyk_square_inside(q_index, reference_radius, aspect_ratio, stellar_mass, gravitational_constant) ==
    Mul(Sq(Mul(aspect_ratio,
               Sqrt(Div(Mul(gravitational_constant, stellar_mass), reference_radius)))),
        Pow(reference_radius, q_index))

polyk_for_locally_isothermal_disc(q_index, reference_radius, aspect_ratio, stellar_mass, gravitational_constant) ==
    Sq(Mul(Mul(aspect_ratio,
               Sqrt(Div(Mul(gravitational_constant, stellar_mass), reference_radius))),
           Pow(reference_radius, q_index)))

\* a polyk that takes its velocity from the sound speed it computes from T0
polyk_mine_from_T0(T0, q_index, reference_radius, stellar_mass, gravitational_constant, aspect_ratio) ==
    LET cs_ref == Sqrt(Div(Mul(k_b, T0), Mul(mu_run, m_p)))
    IN  Sq(Mul(cs_ref, Pow(reference_radius, q_index)))

\* cs_ref and omega_ref are computed first; a raise there ends the call
polyk_for_locally_isothermal_disc_mine(T0, q_index, reference_radius, stellar_mass, gravitational_constant, aspect_ratio) ==
    LET cs_ref == Sqrt(Div(Mul(k_b, T0), Mul(mu_run, m_p)))
        omega_ref == omega_ref_cgs(reference_radius, stellar_mass)
    IN  IF cs_ref.k = "nar" \/ omega_ref.k = "nar" THEN NaR
        ELSE Sq(Mul(Mul(aspect_ratio,
                        Sqrt(Div(Mul(gravitational_constant, stellar_mass),
                                 reference_radius))),
                    Pow(reference_radius, q_index)))

get_aspect_ratio_new(T0, R0_temp, Tinf, my_temp_exp, reference_radius, stellar_mass, gravitational_constant) ==
    LET T_ref == Sqrt(Add(Mul(Sq(T0),
                              Pow(Add(Sq(reference_radius), Sq(R0_temp)),
                                  0 - my_temp_exp)),
                          Sq(Tinf)))
        cs_ref == Sqrt(Div(Mul(k_b, T_ref), Mul(mu_run, m_p)))
        omega_ref == omega_ref_cgs(reference_radius, stellar_mass)
    IN  Div(Div(cs_ref, omega_ref), Mul(reference_radius, au))

----------------------------------------------------------------------------
(* The callers of the polyk functions *)

\* numeric arguments are the integers 1..MaxNum that factor over 2, 3, 5
MaxNum == 3

\* q_index and my_temp_exp go up to MaxQ quarters
MaxQ == 3

Nums == {FromInt(n) : n \in {m \in 1..MaxNum : Smooth(m)}}

\* the aspect ratios 1/n
AspectRatios == {Div(One, x) : x \in Nums}

PolykInit ==
    /\ headerKeys \in SUBSET {"mu", "gamma", "qfacdisc"}
    /\ eos = NoInstance
    /\ last = NoOp
    /\ args \in [q_index : (0 - MaxQ)..MaxQ, reference_radius : Nums,
                 aspect_ratio : AspectRatios, stellar_mass : Nums,
                 gravitational_constant : Nums]
    /\ res = [pc |-> "start", polyk |-> None, T0 |-> None, stellar_mass |-> None,
              gravitational_constant |-> None, other |-> None]
    /\ script = [pc |-> "start", polyk |-> None, disc |-> NoArgs]

\* polyk_for_locally_isothermal_disc(q_index, reference_radius, aspect_ratio,
\*                                   stellar_mass, gravitational_constant)
CallPolyk ==
    /\ res.pc = "start" /\ script.pc = "start"
    /\ res' = [res EXCEPT !.pc = "called",
                 !.polyk = polyk_for_locally_isothermal_disc(
                     args.q_index, args.reference_radius, args.aspect_ratio,
                     args.stellar_mass, args.gravitational_constant)]
    /\ UNCHANGED <<headerKeys, eos, last, args, script>>

\* the same call with another stellar mass and gravitational constant
CallPolykRescaled ==
    /\ res.pc = "called"
    /\ \E M \in Nums, G \in Nums :
          res' = [res EXCEPT !.pc = "rescaled", !.stellar_mass = M,
                    !.gravitational_constant = G,
                    !.other = polyk_for_locally_isothermal_disc(
                        args.q_index, args.reference_radius, args.aspect_ratio, M, G)]
    /\ UNCHANGED <<headerKeys, eos, last, args, script>>

\* polyk_for_locally_isothermal_disc_mine(T0, q_index, reference_radius,
\*                                        stellar_mass, gravitational_constant,
\*                                        aspect_ratio)
CallPolykMine ==
    /\ res.pc = "called"
    /\ \E T0 \in Nums \cup {Zero} :
          res' = [res EXCEPT !.pc = "mine", !.T0 = T0,
                    !.other = polyk_for_locally_isothermal_disc_mine(
                        T0, args.q_index, args.reference_radius, args.stellar_mass,
                        args.gravitational_constant, args.aspect_ratio)]
    /\ UNCHANGED <<headerKeys, eos, last, args, script>>

----------------------------------------------------------------------------
(* examples/setup_disc.py *)

\* the script's parameters; q_index = 0.75 is 3 quarters
Parameters ==
    [ieos |-> 3, q_index |-> 3, aspect_ratio |-> Div(One, FromInt(20)),
     reference_radius |-> FromInt(10), stellar_mass |-> One,
     gravitational_constant |-> One]

\* polyk = polyk_for_locally_isothermal_disc(...)
ScriptPolyk ==
    /\ script.pc = "start" /\ res.pc = "start"
    /\ script' = [script EXCEPT !.pc = "polyk",
                    !.polyk = polyk_for_locally_isothermal_disc(
                        Parameters.q_index, Parameters.reference_radius,
                        Parameters.aspect_ratio, Parameters.stellar_mass,
                        Parameters.gravitational_constant)]
    /\ UNCHANGED <<headerKeys, eos, last, args, res>>

\* Setup.set_equation_of_state(**kwargs): the setup's EquationOfState
set_equation_of_state(ieos, kwargs, hk) == EosInit(ieos, kwargs, hk).self

\* setup.set_equation_of_state(ieos=ieos, polyk=polyk)
ScriptSetEos ==
    /\ script.pc = "polyk"
    /\ eos' = set_equation_of_state(Parameters.ieos,
                                    [x \in {"polyk"} |-> script.polyk], headerKeys)
    /\ script' = [script EXCEPT !.pc = "eos"]
    /\ UNCHANGED <<headerKeys, last, args, res>>

\* setup.add_disc(..., q_index=q_index, aspect_ratio=aspect_ratio, ...)
ScriptAddDisc ==
    /\ script.pc = "eos"
    /\ script' = [script EXCEPT !.pc = "disc",
                    !.disc = [q_index |-> Parameters.q_index,
                              aspect_ratio |-> Parameters.aspect_ratio,
                              reference_radius |-> Parameters.reference_radius,
                              stellar_mass |-> Parameters.stellar_mass,
                              gravitational_constant |->
                                  Parameters.gravitational_constant]]
    /\ UNCHANGED <<headerKeys, eos, last, args, res>>

PolykNext ==
    \/ CallPolyk \/ CallPolykRescaled \/ CallPolykMine
    \/ ScriptPolyk \/ ScriptSetEos \/ ScriptAddDisc

SpecPolyk == PolykInit /\ [][PolykNext]_vars

----------------------------------------------------------------------------
(* The callers of get_aspect_ratio_new *)

AspectArgs ==
    [T0 : Nums, R0_temp : Nums \cup {Zero}, Tinf : Nums \cup {Zero},
     my_temp_exp : 0..MaxQ, reference_radius : Nums, stellar_mass : Nums,
     gravitational_constant : Nums]

AspectOf(a, G) ==
    get_aspect_ratio_new(a.T0, a.R0_temp, a.Tinf, a.my_temp_exp, a.reference_radius,
                         a.stellar_mass, G)

AspectInit ==
    /\ headerKeys = {}
    /\ eos = NoInstance
    /\ last = NoOp
    /\ args \in {a \in AspectArgs : AspectOf(a, a.gravitational_constant).k = "pos"}
    /\ res = [pc |-> "start", aspect |-> None, gravitational_constant |-> None,
              other |-> None]
    /\ script = NoArgs

\* get_aspect_ratio_new(T0, R0_temp, Tinf, my_temp_exp, reference_radius,
\*                      stellar_mass, gravitational_constant)
CallAspect ==
    /\ res.pc = "start"
    /\ res' = [res EXCEPT !.pc = "called",
                 !.aspect = AspectOf(args, args.gravitational_constant)]
    /\ UNCHANGED <<headerKeys, eos, last, args, script>>

\* the same call with another gravitational constant
CallAspectOtherG ==
    /\ res.pc = "called"
    /\ \E G \in Nums :
          res' = [res EXCEPT !.pc = "other", !.gravitational_constant = G,
                    !.other = AspectOf(args, G)]
    /\ UNCHANGED <<headerKeys, eos, last, args, script>>

AspectNext == CallAspect \/ CallAspectOtherG

SpecAspect == AspectInit /\ [][AspectNext]_vars

----------------------------------------------------------------------------
(* The claims *)

Getter(self, p) ==
    CASE p = "mu" -> mu_getter(self)
      [] p = "polyk" -> polyk_getter(self)
      [] p = "gamma" -> gamma_getter(self)
      [] p = "qfacdisc" -> qfacdisc_getter(self)

KnownCodes == {1, 2, 3, 6, 7, 8, 9, 10, 11, 14}

Constructed == last.op = "construct"

\* C1: a construction raises exactly when ieos is not a known variant code
\* or an override among mu/polyk/gamma/qfacdisc names a parameter whose
\* allowed variants do not contain ieos; a raise yields no instance and every
\* other construction yields one, of that variant.
C1_ConstructFailsExactly ==
    Constructed =>
        /\ last.raised <=>
              \/ last.ieos \notin KnownCodes
              \/ \E p \in ParamNames \cap DOMAIN last.kwargs : last.ieos \notin ieos_has[p]
        /\ last.raised => eos = NoInstance
        /\ ~last.raised => eos.exists /\ eos.ieos = last.ieos

C1_Witness ==
    /\ Constructed /\ last.raised
    /\ last.ieos = 1 /\ DOMAIN last.kwargs = {"mu", "gamma"}

GlobalDefault(p) ==
    IF p = "polyk" THEN Mul(Div(FromInt(2), FromInt(3)), Sym("RK2"))
    ELSE IF p \in headerKeys THEN HEADER[p] ELSE RUN_OPTIONS[p]

\* C2: after a successful construction, get of each parameter the variant
\* allows returns the caller's override if one was supplied and the default
\* otherwise (2/3 * RK2 for polyk, the global default for the others).
C2_OverrideElseDefault ==
    Constructed /\ ~last.raised =>
        \A p \in ParamNames :
            eos.ieos \in ieos_has[p] =>
                Getter(eos, p) = IF p \in DOMAIN last.kwargs
                                 THEN last.kwargs[p]
                                 ELSE GlobalDefault(p)

C2_Witness ==
    /\ Constructed /\ ~last.raised
    /\ eos.ieos = 2 /\ DOMAIN last.kwargs = {"gamma", "polyk"}
    /\ gamma_getter(eos) = FromInt(2) /\ mu_getter(eos) = GlobalDefault("mu")

\* C3: a set of a parameter the variant does not support raises and leaves
\* the variant tag and the four stored values as they were; a set of a
\* supported parameter does not raise, and a get of it then returns the value
\* that was set.
C3_SetChecksVariant ==
    [][last'.op = "set" =>
          IF eos.ieos \notin ieos_has[last'.param]
          THEN last'.raised /\ eos' = eos
          ELSE ~last'.raised /\ Getter(eos', last'.param) = last'.value]_vars

C3_Witness ==
    /\ last.op = "set" /\ last.raised /\ last.param = "gamma" /\ eos.ieos = 3
    /\ gamma_getter(eos) = None

\* C4: a get of a parameter the variant does not support raises.
C4_GetChecksVariant ==
    last.op = "get" /\ eos.ieos \notin ieos_has[last.param] => last.raised

\* C5: a parameter holds a value only if the variant is in the parameter's
\* allowed set: gamma only for ieos in {2, 8, 9}, qfacdisc only for ieos in
\* {3, 6, 7, 14}.
C5_ValueOnlyIfAllowed ==
    eos.exists =>
        /\ \A p \in ParamNames : eos.parameters[p] # None => eos.ieos \in ieos_has[p]
        /\ eos.parameters["gamma"] # None => eos.ieos \in {2, 8, 9}
        /\ eos.parameters["qfacdisc"] # None => eos.ieos \in {3, 6, 7, 14}

C5_Witness ==
    /\ last.op = "set" /\ last.raised /\ last.param = "qfacdisc" /\ eos.ieos = 8
    /\ eos.parameters["qfacdisc"] = None /\ eos.parameters["gamma"] # None

\* C6: no get or set changes the variant tag, a get changes no stored value,
\* and a set that does not raise changes no parameter but its own.
C6_AccessorsFrame ==
    [][eos.exists /\ last'.op \in {"get", "set"} =>
          /\ eos'.exists /\ eos'.ieos = eos.ieos
          /\ last'.op = "get" => eos' = eos
          /\ \A p \in ParamNames \ {last'.param} :
                eos'.parameters[p] = eos.parameters[p]]_vars

C6_Witness ==
    /\ last.op = "set" /\ ~last.raised /\ last.param = "polyk" /\ eos.ieos = 14
    /\ polyk_getter(eos) = FromInt(2) /\ mu_getter(eos) = FromInt(1)

\* C7: two calls of polyk_for_locally_isothermal_disc whose stellar mass and
\* gravitational constant have the same product, all else equal, return the
\* same value.
C7_SameProductSamePolyk ==
    /\ res.pc = "rescaled"
    /\ Mul(res.gravitational_constant, res.stellar_mass)
          = Mul(args.gravitational_constant, args.stellar_mass)
    => res.other = res.polyk

C7_Witness ==
    /\ res.pc = "rescaled"
    /\ args.stellar_mass = FromInt(2) /\ args.gravitational_constant = FromInt(1)
    /\ res.stellar_mass = FromInt(1) /\ res.gravitational_constant = FromInt(2)
    /\ args.q_index = 3

v_Kepler(R, M, G) == Sqrt(Div(Mul(G, M), R))

\* polyk R^(-2 q) = (H/R v_Kepler(R))^2 at R = reference_radius, and
\* polyk = (H/R)^2 (G M / R) R^(2 q)
SoundSpeedMatches(polyk, a) ==
    /\ Mul(polyk, Pow(a.reference_radius, 0 - 2 * a.q_index))
          = Sq(Mul(a.aspect_ratio,
                   v_Kepler(a.reference_radius, a.stellar_mass,
                            a.gravitational_constant)))
    /\ polyk = Mul(Mul(Sq(a.aspect_ratio),
                       Div(Mul(a.gravitational_constant, a.stellar_mass),
                           a.reference_radius)),
                   Pow(a.reference_radius, 2 * a.q_index))

\* C8: polyk_for_locally_isothermal_disc returns
\* (aspect_ratio sqrt(G M / R) R^q)^2, so that polyk R^(-2 q) at the reference
\* radius is (aspect_ratio v_Kepler)^2; and the polyk the example sets in the
\* equation of state is that value for the q_index, reference_radius,
\* aspect_ratio, stellar_mass and G it passes to add_disc.
C8_PolykGivesAspectRatio ==
    /\ res.pc # "start" => SoundSpeedMatches(res.polyk, args)
    /\ script.pc = "disc" =>
          eos.exists /\ SoundSpeedMatches(polyk_getter(eos), script.disc)

C8_Witness ==
    /\ script.pc = "disc" /\ eos.exists /\ eos.ieos = 3
    /\ script.disc.q_index = 3 /\ script.disc.reference_radius = FromInt(10)
    /\ polyk_getter(eos) = Div(Sqrt(FromInt(10)), FromInt(400))

\* c_s / (Omega R) from the arguments of the call
ClaimedAspect(a, G) ==
    LET T == Sqrt(Add(Mul(Sq(a.T0),
                          Pow(Add(Sq(a.reference_radius), Sq(a.R0_temp)),
                              0 - a.my_temp_exp)),
                      Sq(a.Tinf)))
        c_s == Sqrt(Div(Mul(k_b, T), Mul(mu_run, m_p)))
        Omega == Sqrt(Div(Mul(G, a.stellar_mass), Pow(a.reference_radius, 3 * QDen)))
    IN  Div(c_s, Mul(Omega, a.reference_radius))

\* C9: get_aspect_ratio_new returns c_s / (Omega R) at the reference radius
\* with Omega = sqrt(G M / R^3) of the call's gravitational_constant,
\* stellar_mass and reference_radius; two calls that differ only in the
\* gravitational constant return results in the ratio sqrt(G2 / G1).
C9_AspectFromArguments ==
    /\ res.pc # "start" => res.aspect = ClaimedAspect(args, args.gravitational_constant)
    /\ res.pc = "other" =>
          LET ratio == Sqrt(Div(res.gravitational_constant,
                                args.gravitational_constant))
          IN  \/ res.other = Mul(res.aspect, ratio)
              \/ res.aspect = Mul(res.other, ratio)

\* C10: where it returns, polyk_for_locally_isothermal_disc_mine returns what
\* polyk_for_locally_isothermal_disc returns for the same q_index,
\* reference_radius, aspect_ratio, stellar_mass and G, whatever T0 is.
C10_MineEqualsPolyk ==
    res.pc = "mine" /\ res.other # NaR => res.other = res.polyk

C10_Witness ==
    /\ res.pc = "mine" /\ res.T0 = FromInt(2) /\ res.other.k = "pos"
    /\ args.q_index = 0 - 1 /\ args.reference_radius = FromInt(3)

====
